---- MODULE Spec2Model ----
(***************************************************************************)
(* wasi-process: the bounded pipe (src/src/pipe.rs), its shared handle     *)
(* LockPipe, the task-local stdio bindings and the WasiProcess future      *)
(* (src/src/lib.rs) and the pseudo-file adapters (src/src/stdio.rs).       *)
(*                                                                         *)
(* Spec      the pipe: one reader task and one writer task polling one     *)
(*           Pipe through LockPipe handles, each poll under the lock.      *)
(* SpecProg  one sender and one receiver task on the pipe, each polled     *)
(*           fairly: the sender loops over short writes and closes, the    *)
(*           receiver reads to the end of the stream.                      *)
(* SpecProc  two WasiProcess futures polled on worker threads, their       *)
(*           guests calling the stdio adapters.                            *)
(* SpecOne   one WasiProcess with every operation of its guest and host,   *)
(*           the rejected ones and the reads of an empty stream included.  *)
(* SpecLife  one WasiProcess object: its Option fields, its polls, the     *)
(*           task spawn() makes and the SpawnHandle.                       *)
(***************************************************************************)
EXTENDS Integers, Sequences, FiniteSets, TLC

\* ---------------------------------------------------------------- bounds
MaxCap == 2        \* largest max_buf_size tried
MaxWrite == 2      \* longest source buffer handed to one write
MaxDest == 2       \* largest destination buffer handed to one read
MaxTotal == 3      \* bytes requested over the whole run
MaxClones == 2     \* live LockPipe clones

Byte == {0, 1}
None == "None"
Sides == {"reader", "writer"}

Min(a, b) == IF a < b THEN a ELSE b

RECURSIVE SeqsUpTo(_)
SeqsUpTo(n) ==
    IF n = 0 THEN {<<>>}
    ELSE LET S == SeqsUpTo(n - 1)
         IN  S \cup {Append(s, b) : s \in {t \in S : Len(t) = n - 1}, b \in Byte}

IsPrefix(s, t) == Len(s) <= Len(t) /\ SubSeq(t, 1, Len(s)) = s

\* ------------------------------------------------------------ pipe.rs: Pipe
\* Pipe::new
Pipe_new(max_buf_size) ==
    [buffer |-> <<>>, is_closed |-> FALSE, max_buf_size |-> max_buf_size,
     read_waker |-> None, write_waker |-> None]

\* close that sets the flag and leaves the parked reader alone
close_nowake(self) ==
    [pipe |-> [self EXCEPT !.is_closed = TRUE], wake |-> {}]

\* close that flips the flag: a second close opens the pipe again
close_toggle(self) ==
    [pipe |-> [self EXCEPT !.is_closed = ~self.is_closed, !.read_waker = None],
     wake |-> IF self.read_waker # None THEN {self.read_waker} ELSE {}]

\* Pipe::close; wake is the set of tasks whose waker was woken
close(self) ==
    [pipe |-> [self EXCEPT !.is_closed = TRUE, !.read_waker = None],
     wake |-> IF self.read_waker # None THEN {self.read_waker} ELSE {}]

\* poll_read that copies the bytes out and forgets buffer.advance(max)
poll_read_noadvance(self, cx, d) ==
    IF Len(self.buffer) > 0
    THEN LET max == Min(Len(self.buffer), d)
         IN  [pipe |-> [self EXCEPT !.write_waker = IF max > 0 THEN None ELSE @],
              wake |-> IF max > 0 /\ self.write_waker # None
                       THEN {self.write_waker} ELSE {},
              poll |-> "Ready", res |-> "Ok",
              data |-> SubSeq(self.buffer, 1, max)]
    ELSE IF self.is_closed
    THEN [pipe |-> self, wake |-> {}, poll |-> "Ready", res |-> "Ok", data |-> <<>>]
    ELSE [pipe |-> [self EXCEPT !.read_waker = cx], wake |-> {},
          poll |-> "Pending", res |-> "None", data |-> <<>>]

\* poll_read that tests is_closed before the buffer: end-of-stream before the drain
poll_read_eof_first(self, cx, d) ==
    IF self.is_closed
    THEN [pipe |-> self, wake |-> {}, poll |-> "Ready", res |-> "Ok", data |-> <<>>]
    ELSE IF Len(self.buffer) > 0
    THEN LET max == Min(Len(self.buffer), d)
         IN  [pipe |-> [self EXCEPT
                          !.buffer = SubSeq(self.buffer, max + 1, Len(self.buffer)),
                          !.write_waker = IF max > 0 THEN None ELSE @],
              wake |-> IF max > 0 /\ self.write_waker # None
                       THEN {self.write_waker} ELSE {},
              poll |-> "Ready", res |-> "Ok",
              data |-> SubSeq(self.buffer, 1, max)]
    ELSE [pipe |-> [self EXCEPT !.read_waker = cx], wake |-> {},
          poll |-> "Pending", res |-> "None", data |-> <<>>]

\* poll_read without the Pending branch: an empty open pipe reads as zero bytes
poll_read_nopending(self, cx, d) ==
    IF Len(self.buffer) > 0
    THEN LET max == Min(Len(self.buffer), d)
         IN  [pipe |-> [self EXCEPT
                          !.buffer = SubSeq(self.buffer, max + 1, Len(self.buffer)),
                          !.write_waker = IF max > 0 THEN None ELSE @],
              wake |-> IF max > 0 /\ self.write_waker # None
                       THEN {self.write_waker} ELSE {},
              poll |-> "Ready", res |-> "Ok",
              data |-> SubSeq(self.buffer, 1, max)]
    ELSE [pipe |-> self, wake |-> {}, poll |-> "Ready", res |-> "Ok", data |-> <<>>]

\* poll_read without the `if max > 0` test: every completed read wakes the writer
poll_read_wake_always(self, cx, d) ==
    IF Len(self.buffer) > 0
    THEN LET max == Min(Len(self.buffer), d)
         IN  [pipe |-> [self EXCEPT
                          !.buffer = SubSeq(self.buffer, max + 1, Len(self.buffer)),
                          !.write_waker = None],
              wake |-> IF self.write_waker # None THEN {self.write_waker} ELSE {},
              poll |-> "Ready", res |-> "Ok",
              data |-> SubSeq(self.buffer, 1, max)]
    ELSE IF self.is_closed
    THEN [pipe |-> self, wake |-> {}, poll |-> "Ready", res |-> "Ok", data |-> <<>>]
    ELSE [pipe |-> [self EXCEPT !.read_waker = cx], wake |-> {},
          poll |-> "Pending", res |-> "None", data |-> <<>>]

\* poll_read without cmp::min(.., buf.remaining()): the whole buffer is handed out
poll_read_nomin(self, cx, d) ==
    IF Len(self.buffer) > 0
    THEN LET max == Len(self.buffer)
         IN  [pipe |-> [self EXCEPT !.buffer = <<>>, !.write_waker = None],
              wake |-> IF self.write_waker # None THEN {self.write_waker} ELSE {},
              poll |-> "Ready", res |-> "Ok",
              data |-> SubSeq(self.buffer, 1, max)]
    ELSE IF self.is_closed
    THEN [pipe |-> self, wake |-> {}, poll |-> "Ready", res |-> "Ok", data |-> <<>>]
    ELSE [pipe |-> [self EXCEPT !.read_waker = cx], wake |-> {},
          poll |-> "Pending", res |-> "None", data |-> <<>>]

\* <Pipe as AsyncRead>::poll_read; cx is the polling task, d is buf.remaining()
poll_read(self, cx, d) ==
    IF Len(self.buffer) > 0
    THEN LET max == Min(Len(self.buffer), d)
         IN  [pipe |-> [self EXCEPT
                          !.buffer = SubSeq(self.buffer, max + 1, Len(self.buffer)),
                          !.write_waker = IF max > 0 THEN None ELSE @],
              wake |-> IF max > 0 /\ self.write_waker # None
                       THEN {self.write_waker} ELSE {},
              poll |-> "Ready", res |-> "Ok",
              data |-> SubSeq(self.buffer, 1, max)]
    ELSE IF self.is_closed
    THEN [pipe |-> self, wake |-> {}, poll |-> "Ready", res |-> "Ok", data |-> <<>>]
    ELSE [pipe |-> [self EXCEPT !.read_waker = cx], wake |-> {},
          poll |-> "Pending", res |-> "None", data |-> <<>>]

\* poll_write without buf.len().min(avail): the whole source is appended
poll_write_nomin(self, cx, buf) ==
    IF self.is_closed
    THEN [pipe |-> self, wake |-> {}, poll |-> "Ready", res |-> "BrokenPipe", n |-> 0]
    ELSE LET avail == self.max_buf_size - Len(self.buffer)
         IN  IF avail = 0
             THEN [pipe |-> [self EXCEPT !.write_waker = cx], wake |-> {},
                   poll |-> "Pending", res |-> "None", n |-> 0]
             ELSE [pipe |-> [self EXCEPT !.buffer = self.buffer \o buf,
                                         !.read_waker = None],
                   wake |-> IF self.read_waker # None THEN {self.read_waker} ELSE {},
                   poll |-> "Ready", res |-> "Ok", n |-> Len(buf)]

\* poll_write that tests the free space before is_closed
poll_write_avail_first(self, cx, buf) ==
    LET avail == self.max_buf_size - Len(self.buffer)
    IN  IF avail = 0
        THEN [pipe |-> [self EXCEPT !.write_waker = cx], wake |-> {},
              poll |-> "Pending", res |-> "None", n |-> 0]
        ELSE IF self.is_closed
        THEN [pipe |-> self, wake |-> {}, poll |-> "Ready", res |-> "BrokenPipe", n |-> 0]
        ELSE LET len == Min(Len(buf), avail)
             IN  [pipe |-> [self EXCEPT
                              !.buffer = self.buffer \o SubSeq(buf, 1, len),
                              !.read_waker = None],
                  wake |-> IF self.read_waker # None THEN {self.read_waker} ELSE {},
                  poll |-> "Ready", res |-> "Ok", n |-> len]

\* poll_write that appends and forgets to wake the reader
poll_write_nowake(self, cx, buf) ==
    IF self.is_closed
    THEN [pipe |-> self, wake |-> {}, poll |-> "Ready", res |-> "BrokenPipe", n |-> 0]
    ELSE LET avail == self.max_buf_size - Len(self.buffer)
         IN  IF avail = 0
             THEN [pipe |-> [self EXCEPT !.write_waker = cx], wake |-> {},
                   poll |-> "Pending", res |-> "None", n |-> 0]
             ELSE LET len == Min(Len(buf), avail)
                  IN  [pipe |-> [self EXCEPT
                                   !.buffer = self.buffer \o SubSeq(buf, 1, len)],
                       wake |-> {},
                       poll |-> "Ready", res |-> "Ok", n |-> len]

\* <Pipe as AsyncWrite>::poll_write; cx is the polling task, buf the source bytes
poll_write(self, cx, buf) ==
    IF self.is_closed
    THEN [pipe |-> self, wake |-> {}, poll |-> "Ready", res |-> "BrokenPipe", n |-> 0]
    ELSE LET avail == self.max_buf_size - Len(self.buffer)
         IN  IF avail = 0
             THEN [pipe |-> [self EXCEPT !.write_waker = cx], wake |-> {},
                   poll |-> "Pending", res |-> "None", n |-> 0]
             ELSE LET len == Min(Len(buf), avail)
                  IN  [pipe |-> [self EXCEPT
                                   !.buffer = self.buffer \o SubSeq(buf, 1, len),
                                   !.read_waker = None],
                       wake |-> IF self.read_waker # None
                                THEN {self.read_waker} ELSE {},
                       poll |-> "Ready", res |-> "Ok", n |-> len]

\* <Pipe as AsyncWrite>::poll_shutdown
poll_shutdown(self) == close(self)

\* LockPipe without its Drop impl: releasing the Arc leaves the Pipe as it is
LockPipe_drop_nothing(self) == [pipe |-> self, wake |-> {}]

\* <LockPipe as Drop>::drop: runs for every LockPipe value that goes away
LockPipe_drop(self) == close(self)

\* stdio.rs Stdout::write, Stderr::write over a LockPipe binding:
\* block_on(handle.write(buf)) hands back what the Ready poll_write returned
Stdout_write(r) == [res |-> r.res, n |-> r.n]

\* ------------------------------------------------------------------ state
VARIABLES
    pipe,       \* the Pipe inside Arc<Mutex<..>>
    handles,    \* live LockPipe clones held by each side
    rd,         \* reader task: pc, d (destination size), why (reason of the last wake)
    wr,         \* writer task: pc, buf (source bytes), why
    accepted,   \* history: every byte a write appended, in order
    delivered,  \* history: every byte a read returned, in order
    atClose,    \* history: buffer content when the pipe was first closed
    drained,    \* history: bytes returned by reads since the first close
    ev          \* the last operation: what it was given and what it did

pvars == <<pipe, handles, rd, wr, accepted, delivered, atClose, drained, ev>>

\* lib.rs, stdio.rs: the processes (see below)
VARIABLES
    tls,        \* per worker thread: the value of each task_local key
    proc,       \* per process: state, worker thread, registered files
    io,         \* stdio operations made so far that moved a byte or changed a handle
    chan,       \* per process and stream: the chunks queued in the mpsc channel
    rdr,        \* per process and stream: the StreamReader's current chunk, what is left of it
    hostIn,     \* per process: WasiStdin.tx is Some ("open") or taken ("shutdown")
    hostGot,    \* history: bytes the host read from each stdout / stderr handle
    guestGot,   \* history: bytes the Stdin adapter returned to each guest
    pev         \* the last process-level operation

qvars == <<tls, proc, io, chan, rdr, hostIn, hostGot, guestGot, pev>>

\* lib.rs: one WasiProcess object, its task and its SpawnHandle (see below)
VARIABLES
    obj,        \* the object: its three Option fields, the state of `handle`, entry-point calls
    task,       \* how the object is driven (await / spawn), the tokio task, its output
    takes,      \* history: retrievals of each stream's handle so far
    lev         \* the last operation on the object

lvars == <<obj, task, takes, lev>>

NoEv ==
    [op |-> "new", side |-> None, retry |-> FALSE, why |-> None,
     len |-> 0, buf |-> <<>>, poll |-> "Ready", res |-> "Ok", n |-> 0,
     data |-> <<>>, wake |-> {}, last |-> FALSE,
     ret |-> [res |-> "None", n |-> 0], pre |-> Pipe_new(0)]

\* Waker::wake on each task in w: a parked task becomes runnable
Woken(t, me, w, reason) ==
    IF me \in w /\ t.pc = "pending"
    THEN [t EXCEPT !.pc = "woken", !.why = reason]
    ELSE t

PipeInit ==
    /\ \E c \in 1..MaxCap : pipe = Pipe_new(c)
    /\ \E s \in Sides : handles = [t \in Sides |-> IF t = s THEN 1 ELSE 0]
    /\ rd = [pc |-> "idle", d |-> 0, why |-> None]
    /\ wr = [pc |-> "idle", buf |-> <<>>, why |-> None, msg |-> <<>>]
    /\ accepted = <<>>
    /\ delivered = <<>>
    /\ atClose = <<>>
    /\ drained = <<>>
    /\ ev = NoEv

\* one poll of LockPipe::poll_read by the reader task (lock held for the call);
\* onEof is where the task goes after a read of zero bytes into d > 0
ReadPoll(d, retry, onEof) ==
    LET r == poll_read(pipe, "reader", d)
    IN  /\ pipe' = r.pipe
        /\ rd' = IF r.poll = "Pending"
                 THEN [pc |-> "pending", d |-> d, why |-> None]
                 ELSE [pc |-> IF d > 0 /\ r.data = <<>> THEN onEof ELSE "idle",
                       d |-> 0, why |-> None]
        /\ wr' = Woken(wr, "writer", r.wake, "space")
        /\ delivered' = delivered \o r.data
        /\ drained' = IF pipe.is_closed THEN drained \o r.data ELSE drained
        /\ ev' = [NoEv EXCEPT !.op = "read", !.side = "reader", !.retry = retry,
                              !.why = rd.why, !.len = d, !.poll = r.poll,
                              !.res = r.res, !.n = Len(r.data), !.data = r.data,
                              !.wake = r.wake, !.pre = pipe]
        /\ UNCHANGED <<handles, accepted, atClose>>

ReadStart ==
    /\ rd.pc = "idle"
    /\ handles["reader"] > 0
    /\ \E d \in 0..MaxDest : ReadPoll(d, FALSE, "idle")
    /\ UNCHANGED <<qvars, lvars>>

ReadRetry ==
    /\ rd.pc = "woken"
    /\ ReadPoll(rd.d, TRUE, "idle")
    /\ UNCHANGED <<qvars, lvars>>

\* one poll of LockPipe::poll_write by the writer task
WritePoll(buf, retry) ==
    LET r == poll_write(pipe, "writer", buf)
    IN  /\ pipe' = r.pipe
        /\ wr' = IF r.poll = "Pending"
                 THEN [pc |-> "pending", buf |-> buf, why |-> None, msg |-> wr.msg]
                 ELSE [pc |-> "idle", buf |-> <<>>, why |-> None, msg |-> wr.msg]
        /\ rd' = Woken(rd, "reader", r.wake, IF r.n > 0 THEN "data" ELSE "empty")
        /\ accepted' = accepted \o SubSeq(buf, 1, r.n)
        /\ ev' = [NoEv EXCEPT !.op = "write", !.side = "writer", !.retry = retry,
                              !.why = wr.why, !.len = Len(buf), !.buf = buf,
                              !.poll = r.poll, !.res = r.res, !.n = r.n,
                              !.ret = IF r.poll = "Ready" THEN Stdout_write(r) ELSE @,
                              !.wake = r.wake, !.pre = pipe]
        /\ UNCHANGED <<handles, delivered, atClose, drained>>

WriteStart ==
    /\ wr.pc = "idle"
    /\ handles["writer"] > 0
    /\ \E buf \in SeqsUpTo(MaxWrite) :
          /\ Len(accepted) + Len(wr.buf) + Len(buf) <= MaxTotal
          /\ WritePoll(buf, FALSE)
    /\ UNCHANGED <<qvars, lvars>>

WriteRetry ==
    /\ wr.pc = "woken"
    /\ WritePoll(wr.buf, TRUE)
    /\ UNCHANGED <<qvars, lvars>>

\* what a call of Pipe::close does to the tasks and the history
Closing(r, op, side, last) ==
    /\ pipe' = r.pipe
    /\ rd' = Woken(rd, "reader", r.wake, "close")
    /\ wr' = Woken(wr, "writer", r.wake, "close")
    /\ atClose' = IF pipe.is_closed THEN atClose ELSE pipe.buffer
    /\ ev' = [NoEv EXCEPT !.op = op, !.side = side, !.wake = r.wake,
                          !.last = last, !.pre = pipe]
    /\ UNCHANGED <<accepted, delivered, drained>>

\* LockPipe::poll_shutdown by the writer task
Shutdown ==
    /\ wr.pc = "idle"
    /\ handles["writer"] > 0
    /\ Closing(poll_shutdown(pipe), "shutdown", "writer", FALSE)
    /\ UNCHANGED <<handles, qvars, lvars>>

Total(h) == h["reader"] + h["writer"]

\* #[derive(Clone)]: side s clones a handle it holds and hands it to side t
Clone ==
    \E s \in Sides, t \in Sides :
        /\ handles[s] > 0
        /\ Total(handles) < MaxClones
        /\ IF s = "reader" THEN rd.pc = "idle" ELSE wr.pc = "idle"
        /\ handles' = [handles EXCEPT ![t] = @ + 1]
        /\ ev' = [NoEv EXCEPT !.op = "clone", !.side = t, !.pre = pipe]
        /\ UNCHANGED <<pipe, rd, wr, accepted, delivered, atClose, drained, qvars, lvars>>

\* side s drops one of its LockPipe values
Drop ==
    \E s \in Sides :
        /\ handles[s] > 0
        /\ IF s = "reader" THEN rd.pc = "idle" ELSE wr.pc = "idle"
        /\ handles' = [handles EXCEPT ![s] = @ - 1]
        /\ Closing(LockPipe_drop(pipe), "drop", s, Total(handles) = 1)
        /\ UNCHANGED <<qvars, lvars>>

\* the pending read or write future is dropped before it completes
\* (select, timeout): the waker stays registered in the pipe
Cancel ==
    \E s \in Sides :
        /\ IF s = "reader" THEN rd.pc # "idle" ELSE wr.pc # "idle"
        /\ rd' = IF s = "reader" THEN [pc |-> "idle", d |-> 0, why |-> None] ELSE rd
        /\ wr' = IF s = "writer" THEN [wr EXCEPT !.pc = "idle", !.buf = <<>>, !.why = None] ELSE wr
        /\ ev' = [NoEv EXCEPT !.op = "cancel", !.side = s, !.pre = pipe]
        /\ UNCHANGED <<pipe, handles, accepted, delivered, atClose, drained, qvars, lvars>>

\* ---------------------------------------- pipe.rs: a sender and a receiver
\* The writer task sends wr.msg with a loop over short writes, shuts the pipe
\* down and drops its handle; the reader task reads until a read returns zero
\* bytes and drops its handle. Each step is one call under the lock.

\* what the writer still has to send
Rest == SubSeq(wr.msg, Len(accepted) + 1, Len(wr.msg))

\* the writer calls write(&msg[sent..])
SendStart ==
    /\ wr.pc = "idle"
    /\ Rest # <<>>
    /\ WritePoll(Rest, FALSE)
    /\ UNCHANGED <<qvars, lvars>>

\* the woken writer polls its write again
SendRetry ==
    /\ wr.pc = "woken"
    /\ WritePoll(wr.buf, TRUE)
    /\ UNCHANGED <<qvars, lvars>>

\* everything is sent: the writer calls shutdown
SendShutdown ==
    /\ wr.pc = "idle"
    /\ Rest = <<>>
    /\ LET r == poll_shutdown(pipe)
       IN  /\ pipe' = r.pipe
           /\ rd' = Woken(rd, "reader", r.wake, "close")
           /\ wr' = [wr EXCEPT !.pc = "closing"]
           /\ atClose' = IF pipe.is_closed THEN atClose ELSE pipe.buffer
           /\ ev' = [NoEv EXCEPT !.op = "shutdown", !.side = "writer",
                                 !.wake = r.wake, !.pre = pipe]
    /\ UNCHANGED <<handles, accepted, delivered, drained, qvars, lvars>>

\* the reader or the writer has finished and its LockPipe goes out of scope
EndDrop ==
    \E s \in Sides :
        /\ IF s = "reader" THEN rd.pc = "eof" ELSE wr.pc = "closing"
        /\ LET r == LockPipe_drop(pipe)
           IN  /\ pipe' = r.pipe
               /\ rd' = IF s = "reader" THEN [rd EXCEPT !.pc = "done"]
                         ELSE Woken(rd, "reader", r.wake, "close")
               /\ wr' = IF s = "writer" THEN [wr EXCEPT !.pc = "done"]
                         ELSE Woken(wr, "writer", r.wake, "close")
               /\ atClose' = IF pipe.is_closed THEN atClose ELSE pipe.buffer
               /\ ev' = [NoEv EXCEPT !.op = "drop", !.side = s, !.wake = r.wake,
                                     !.last = (Total(handles) = 1), !.pre = pipe]
        /\ handles' = [handles EXCEPT ![s] = @ - 1]
        /\ UNCHANGED <<accepted, delivered, drained, qvars, lvars>>

\* the reader calls read with a destination of d >= 1 bytes
RecvStart ==
    /\ rd.pc = "idle"
    /\ \E d \in 1..MaxDest : ReadPoll(d, FALSE, "eof")
    /\ UNCHANGED <<qvars, lvars>>

\* the woken reader polls its read again
RecvRetry ==
    /\ rd.pc = "woken"
    /\ ReadPoll(rd.d, TRUE, "eof")
    /\ UNCHANGED <<qvars, lvars>>

\* ------------------------------------------------- lib.rs, stdio.rs: processes
MaxOps == 5         \* stdio operations of the guests and hosts over the whole run

ChanCap == 5        \* mpsc::channel(5)
Procs == {"A", "B"}
Workers == {1, 2}
Keys == {"STDIN", "STDOUT", "STDERR"}
Streams == {"stdin", "stdout", "stderr"}
Fds == {0, 1, 2}

\* add_stdio: the pseudo-file registered for each guest descriptor
add_stdio == [fd \in Fds |-> IF fd = 0 THEN "Stdin" ELSE "Stdout"]

\* the three exported pseudo-files registered by hand, each for its own descriptor
by_hand == [fd \in Fds |-> IF fd = 0 THEN "Stdin" ELSE IF fd = 1 THEN "Stdout" ELSE "Stderr"]

\* the task-local key each adapter looks up
AdapterKey(adapter) ==
    IF adapter = "Stdin" THEN "STDIN"
    ELSE IF adapter = "Stdout" THEN "STDOUT" ELSE "STDERR"

\* WasiProcess::new: the channel end each key is scoped to for process p
Scope(p) ==
    [k \in Keys |-> [proc |-> p,
                     stream |-> IF k = "STDIN" THEN "stdin"
                                ELSE IF k = "STDOUT" THEN "stdout" ELSE "stderr"]]

\* a key outside every scope
Unset == [proc |-> None, stream |-> None]

NoScope == [k \in Keys |-> Unset]

NoPev == [op |-> "new", proc |-> None, fd |-> 0, adapter |-> None,
          call |-> None, worker |-> 0, binding |-> Unset, n |-> 0,
          poll |-> "Ready", res |-> "Ok"]

\* the operations of a pseudo-file the guest may call
Calls == {"read", "write", "seek", "set_len"}

\* Stdin whose write goes to the channel like its read does
Delegates_stdin_write(adapter, call) ==
    \/ adapter = "Stdin"
    \/ adapter \in {"Stdout", "Stderr"} /\ call = "write"

\* stdio.rs: the operations an adapter hands to its task-local binding
\* (Stdin::read, Stdout::write, Stderr::write); every other one returns Err
\* without looking at a binding
Delegates(adapter, call) ==
    \/ adapter = "Stdin" /\ call = "read"
    \/ adapter \in {"Stdout", "Stderr"} /\ call = "write"

\* a static shared by every thread instead of task-local storage: the binding
\* of whichever scope is established somewhere
CurrentBinding_static(w, key) ==
    LET set == {v \in Workers : tls[v][key] # Unset}
    IN  IF set = {} THEN Unset ELSE tls[CHOOSE v \in set : \A u \in set : v <= u][key]

\* LocalKey::with on the calling thread
CurrentBinding(w, key) == tls[w][key]

\* the one-byte buffer handed to a write: the byte is tagged with the process
\* and the descriptor it was written for
Tagged(p, fd) == << <<p, fd>> >>

\* WasiProcess::new for the processes in live; the other ones do not exist
ProcInitOf(live) ==
    /\ tls = [w \in Workers |-> NoScope]
    /\ \E f \in {add_stdio, by_hand} :
          proc = [p \in Procs |->
                    [state |-> IF p \in live THEN "constructed" ELSE "absent",
                     worker |-> 0, files |-> f, wrote |-> [fd \in Fds |-> 0]]]
    /\ io = 0
    /\ chan = [p \in Procs |-> [s \in Streams |-> <<>>]]
    /\ rdr = [p \in Procs |-> [s \in Streams |-> <<>>]]
    /\ hostIn = [p \in Procs |-> "open"]
    /\ hostGot = [p \in Procs |-> [s \in Streams |-> <<>>]]
    /\ guestGot = [p \in Procs |-> <<>>]
    /\ pev = NoPev

ProcInit == ProcInitOf(Procs)

Running(p) == proc[p].state = "running"
Finished(p) == proc[p].state \in {"succeeded", "failed"}

\* a process whose future is never dropped: its senders live on
SenderHeld_forever(p) == TRUE

\* out_tx and err_tx are owned by the scopes inside the `handle` future: they
\* live until the future has completed and the task (or the await) drops it
SenderHeld(p) == ~Finished(p)

\* the first poll of the WasiProcess future on worker w: the three scopes are
\* entered and block_in_place starts instance.call("_start") on this thread
Poll ==
    \E p \in Procs, w \in Workers :
        /\ proc[p].state = "constructed"
        /\ \A q \in Procs : Running(q) => proc[q].worker # w
        /\ tls' = [tls EXCEPT ![w] = Scope(p)]
        /\ proc' = [proc EXCEPT ![p].state = "running", ![p].worker = w]
        /\ pev' = [NoPev EXCEPT !.op = "poll", !.proc = p, !.worker = w]
        /\ UNCHANGED <<io, chan, rdr, hostIn, hostGot, guestGot, pvars, lvars>>

\* io::StreamReader::poll_read on the receiver of channel c: the current chunk
\* first, else the next chunk of the channel; d is the destination size
StreamRead(cur, queue, d) ==
    LET chunk == IF cur # <<>> THEN cur ELSE Head(queue)
        n == Min(d, Len(chunk))
    IN  [data |-> SubSeq(chunk, 1, n),
         cur |-> SubSeq(chunk, n + 1, Len(chunk)),
         queue |-> IF cur # <<>> THEN queue ELSE Tail(queue)]

\* the guest of p writes one byte to descriptor fd: Stdout::write / Stderr::write
GuestWrite ==
    \E p \in Procs, fd \in Fds :
        /\ Running(p)
        /\ io < MaxOps
        /\ Delegates(proc[p].files[fd], "write")
        /\ LET adapter == proc[p].files[fd]
               b == CurrentBinding(proc[p].worker, AdapterKey(adapter))
           IN
            /\ b # Unset
            /\ Len(chan[b.proc][b.stream]) < ChanCap
            /\ chan' = [chan EXCEPT ![b.proc][b.stream] = Append(@, Tagged(p, fd))]
            /\ io' = io + 1
            /\ proc' = [proc EXCEPT ![p].wrote[fd] = @ + 1]
            /\ pev' = [NoPev EXCEPT !.op = "write", !.proc = p, !.fd = fd,
                                    !.adapter = adapter, !.call = "write",
                                    !.worker = proc[p].worker,
                                    !.binding = b, !.n = 1]
            /\ UNCHANGED <<tls, rdr, hostIn, hostGot, guestGot, pvars, lvars>>

\* the guest of p reads into a one-byte buffer from descriptor fd: Stdin::read
GuestRead ==
    \E p \in Procs, fd \in Fds :
        /\ Running(p)
        /\ io < MaxOps
        /\ Delegates(proc[p].files[fd], "read")
        /\ LET adapter == proc[p].files[fd]
               b == CurrentBinding(proc[p].worker, AdapterKey(adapter))
           IN
            /\ b # Unset
            /\ \/ rdr[b.proc][b.stream] # <<>>
               \/ chan[b.proc][b.stream] # <<>>
            /\ LET r == StreamRead(rdr[b.proc][b.stream], chan[b.proc][b.stream], 1)
               IN  /\ rdr' = [rdr EXCEPT ![b.proc][b.stream] = r.cur]
                   /\ chan' = [chan EXCEPT ![b.proc][b.stream] = r.queue]
                   /\ guestGot' = [guestGot EXCEPT ![p] = @ \o r.data]
                   /\ pev' = [NoPev EXCEPT !.op = "read", !.proc = p, !.fd = fd,
                                           !.adapter = adapter, !.call = "read",
                                           !.worker = proc[p].worker,
                                           !.binding = b, !.n = Len(r.data)]
            /\ io' = io + 1
            /\ UNCHANGED <<tls, proc, hostIn, hostGot, pvars, lvars>>

\* instance.call returns Ok or Err: the future completes and the scopes are left
GuestReturn ==
    \E p \in Procs, ok \in BOOLEAN :
        /\ Running(p)
        /\ tls' = [tls EXCEPT ![proc[p].worker] = NoScope]
        /\ proc' = [proc EXCEPT ![p].state = IF ok THEN "succeeded" ELSE "failed"]
        /\ pev' = [NoPev EXCEPT !.op = "return", !.proc = p, !.worker = proc[p].worker]
        /\ UNCHANGED <<io, chan, rdr, hostIn, hostGot, guestGot, pvars, lvars>>

\* WasiStdin::poll_write by the host of p: one chunk of one byte
HostWrite ==
    \E p \in Procs :
        /\ proc[p].state # "absent"
        /\ hostIn[p] = "open"
        /\ io < MaxOps
        /\ ~Finished(p)
        /\ Len(chan[p]["stdin"]) < ChanCap
        /\ chan' = [chan EXCEPT ![p]["stdin"] = Append(@, Tagged(p, 0))]
        /\ io' = io + 1
        /\ pev' = [NoPev EXCEPT !.op = "host_write", !.proc = p, !.n = 1]
        /\ UNCHANGED <<tls, proc, rdr, hostIn, hostGot, guestGot, pvars, lvars>>

\* WasiStdin::poll_shutdown by the host of p
HostShutdown ==
    \E p \in Procs :
        /\ proc[p].state # "absent"
        /\ hostIn[p] = "open"
        /\ io < MaxOps
        /\ hostIn' = [hostIn EXCEPT ![p] = "shutdown"]
        /\ io' = io + 1
        /\ pev' = [NoPev EXCEPT !.op = "host_shutdown", !.proc = p]
        /\ UNCHANGED <<tls, proc, chan, rdr, hostGot, guestGot, pvars, lvars>>

\* WasiStdout::poll_read / WasiStderr::poll_read by the host of p
HostRead ==
    \E p \in Procs, s \in {"stdout", "stderr"} :
        /\ io < MaxOps
        /\ io' = io + 1
        /\ \/ rdr[p][s] # <<>>
           \/ chan[p][s] # <<>>
        /\ LET r == StreamRead(rdr[p][s], chan[p][s], 1)
           IN  /\ rdr' = [rdr EXCEPT ![p][s] = r.cur]
               /\ chan' = [chan EXCEPT ![p][s] = r.queue]
               /\ hostGot' = [hostGot EXCEPT ![p][s] = @ \o r.data]
               /\ pev' = [NoPev EXCEPT !.op = "host_read", !.proc = p,
                                       !.binding = [proc |-> p, stream |-> s],
                                       !.n = Len(r.data)]
        /\ UNCHANGED <<tls, proc, hostIn, guestGot, pvars, lvars>>

\* WasiStdout::poll_read / WasiStderr::poll_read with nothing queued: the
\* receiver is Pending while a sender lives and ends the stream once the
\* senders are gone
HostReadEmpty ==
    \E p \in Procs, s \in {"stdout", "stderr"} :
        /\ proc[p].state # "absent"
        /\ rdr[p][s] = <<>>
        /\ chan[p][s] = <<>>
        /\ pev' = [NoPev EXCEPT !.op = "host_read", !.proc = p,
                                !.binding = [proc |-> p, stream |-> s],
                                !.poll = IF SenderHeld(p) THEN "Pending" ELSE "Ready"]
        /\ UNCHANGED <<tls, proc, io, chan, rdr, hostIn, hostGot, guestGot, pvars, lvars>>

\* the guest of p calls an operation its pseudo-file does not hand to a
\* binding: Stdin write / seek / set_len, Stdout and Stderr read / seek / set_len
GuestReject ==
    \E p \in Procs, fd \in Fds, call \in Calls :
        /\ Running(p)
        /\ ~Delegates(proc[p].files[fd], call)
        /\ pev' = [NoPev EXCEPT !.op = "rejected", !.proc = p, !.fd = fd,
                                !.adapter = proc[p].files[fd], !.call = call,
                                !.worker = proc[p].worker, !.res = "Err"]
        /\ UNCHANGED <<tls, proc, io, chan, rdr, hostIn, hostGot, guestGot, pvars, lvars>>

\* ------------------------------------ lib.rs: WasiProcess, spawn, SpawnHandle
MaxTakes == 2       \* retrievals of one stream's handle

NoLev == [op |-> "new", stream |-> None, got |-> None, res |-> None,
          pre |-> [s \in Streams |-> "Some"]]

\* a retrieval that leaves the value in the field (as_ref / clone)
Option_take_keep(v) == [ret |-> v, left |-> v]

\* Option::take on a pub field of WasiProcess: what the caller gets, what is left
Option_take(v) == [ret |-> v, left |-> "None"]

\* a poll that starts the entry point whenever it is not running
WasiProcess_poll_restart(o) ==
    IF o.state = "running" THEN o
    ELSE [o EXCEPT !.state = "running", !.calls = @ + 1]

\* <WasiProcess as Future>::poll: handle.poll. The first poll enters the
\* async block, which calls instance.call("_start"); a completed async block
\* runs nothing when polled again (it panics)
WasiProcess_poll(o) ==
    IF o.state = "constructed"
    THEN [o EXCEPT !.state = "running", !.calls = @ + 1]
    ELSE o

\* the JoinHandle inside SpawnHandle: Pending until the task is over, then the
\* task's output or a JoinError
JoinHandle_poll(t) ==
    IF t.st \in {"scheduled", "running"}
    THEN [poll |-> "Pending", res |-> "None", out |-> "None"]
    ELSE IF t.st = "done"
    THEN [poll |-> "Ready", res |-> "Ok", out |-> t.out]
    ELSE [poll |-> "Ready", res |-> "Err", out |-> "None"]

\* a SpawnHandle that reports every failure as the engine's
SpawnHandle_poll_flat(r) ==
    IF r.poll = "Pending" THEN "Pending"
    ELSE IF r.res = "Err" \/ r.out = "Err" THEN "Wasi"
    ELSE "Ok"

\* <SpawnHandle as Future>::poll:
\* .map(|res| res.map_err(SpawnError::Join)?.map_err(SpawnError::Wasi))
SpawnHandle_poll(r) ==
    IF r.poll = "Pending" THEN "Pending"
    ELSE IF r.res = "Err" THEN "Join"
    ELSE IF r.out = "Err" THEN "Wasi"
    ELSE "Ok"

\* WasiProcess::new: the three handles are Some, `handle` is not yet polled
LifeInit ==
    /\ obj = [stdin |-> "Some", stdout |-> "Some", stderr |-> "Some",
              state |-> "constructed", calls |-> 0]
    /\ task = [how |-> "none", st |-> "none", out |-> "None", joined |-> FALSE]
    /\ takes = [s \in Streams |-> 0]
    /\ lev = NoLev

Done(o) == o.state \in {"succeeded", "failed"}

\* wasi.stdin.take() / wasi.stdout.take() / wasi.stderr.take() by the host,
\* while it still owns the object
Take ==
    \E s \in Streams :
        /\ task.how = "none"
        /\ takes[s] < MaxTakes
        /\ LET r == Option_take(obj[s])
           IN  /\ obj' = [obj EXCEPT ![s] = r.left]
               /\ lev' = [NoLev EXCEPT !.op = "take", !.stream = s, !.got = r.ret,
                                       !.pre = [t \in Streams |-> obj[t]]]
        /\ takes' = [takes EXCEPT ![s] = @ + 1]
        /\ UNCHANGED <<task, pvars, qvars>>

\* WasiProcess::spawn: the object moves into a tokio task
Spawn ==
    /\ task.how = "none"
    /\ task' = [task EXCEPT !.how = "spawn", !.st = "scheduled"]
    /\ lev' = [NoLev EXCEPT !.op = "spawn"]
    /\ UNCHANGED <<obj, takes, pvars, qvars>>

\* one poll of the WasiProcess future: by the host that awaits it (the first
\* poll, or one more after it completed) or by the worker that runs its task
FuturePoll ==
    /\ \/ task.how = "none"
       \/ task.how = "spawn" /\ task.st = "scheduled"
       \/ task.how = "await" /\ Done(obj)
    /\ obj' = WasiProcess_poll(obj)
    /\ task' = IF task.how = "none" THEN [task EXCEPT !.how = "await"]
               ELSE IF task.how = "spawn" THEN [task EXCEPT !.st = "running"]
               ELSE task
    /\ lev' = [NoLev EXCEPT !.op = "poll",
                            !.res = IF obj.state = "constructed" THEN "started"
                                    ELSE "panic"]
    /\ UNCHANGED <<takes, pvars, qvars>>

\* instance.call("_start") returns Ok or Err: the poll returns Ready with it
CallReturn ==
    \E ok \in BOOLEAN :
        /\ obj.state = "running"
        /\ task.st # "panicked"
        /\ obj' = [obj EXCEPT !.state = IF ok THEN "succeeded" ELSE "failed"]
        /\ task' = IF task.how = "spawn"
                   THEN [task EXCEPT !.st = "done", !.out = IF ok THEN "Ok" ELSE "Err"]
                   ELSE task
        /\ lev' = [NoLev EXCEPT !.op = "return", !.res = IF ok THEN "Ok" ELSE "Err"]
        /\ UNCHANGED <<takes, pvars, qvars>>

\* the runtime shuts down before the task was ever polled: JoinError (cancelled)
TaskCancel ==
    /\ task.how = "spawn"
    /\ task.st = "scheduled"
    /\ task' = [task EXCEPT !.st = "cancelled"]
    /\ lev' = [NoLev EXCEPT !.op = "cancel"]
    /\ UNCHANGED <<obj, takes, pvars, qvars>>

\* the poll of the task panics inside the call: JoinError (panic)
TaskPanic ==
    /\ task.how = "spawn"
    /\ task.st = "running"
    /\ task' = [task EXCEPT !.st = "panicked"]
    /\ lev' = [NoLev EXCEPT !.op = "panic"]
    /\ UNCHANGED <<obj, takes, pvars, qvars>>

\* the host polls the SpawnHandle
JoinPoll ==
    /\ task.how = "spawn"
    /\ ~task.joined
    /\ LET r == SpawnHandle_poll(JoinHandle_poll(task))
       IN  /\ lev' = [NoLev EXCEPT !.op = "join", !.res = r]
           /\ task' = [task EXCEPT !.joined = (r # "Pending")]
    /\ UNCHANGED <<obj, takes, pvars, qvars>>

\* ------------------------------------------------------------ specifications
vars == <<pvars, qvars, lvars>>

\* the pipe: the processes stay as constructed
Init ==
    /\ PipeInit
    /\ ProcInit
    /\ \A p \in Procs : proc[p].files = add_stdio
    /\ LifeInit

Next ==
    \/ ReadStart
    \/ ReadRetry
    \/ WriteStart
    \/ WriteRetry
    \/ Shutdown
    \/ Clone
    \/ Drop
    \/ Cancel

Spec == Init /\ [][Next]_vars

\* the processes: the pipe stays as constructed
InitProc ==
    /\ ProcInit
    /\ PipeInit
    /\ pipe.max_buf_size = MaxCap
    /\ handles["writer"] = 1
    /\ LifeInit

NextProc ==
    \/ Poll
    \/ GuestWrite
    \/ GuestRead
    \/ GuestReturn
    \/ HostWrite
    \/ HostShutdown
    \/ HostRead

SpecProc == InitProc /\ [][NextProc]_vars

\* one process, with every operation of its guest and its host
InitOne ==
    /\ ProcInitOf({"A"})
    /\ PipeInit
    /\ pipe.max_buf_size = MaxCap
    /\ handles["writer"] = 1
    /\ LifeInit

NextOne ==
    \/ Poll
    \/ GuestWrite
    \/ GuestRead
    \/ GuestReject
    \/ GuestReturn
    \/ HostWrite
    \/ HostShutdown
    \/ HostRead
    \/ HostReadEmpty

SpecOne == InitOne /\ [][NextOne]_vars

\* the sender and the receiver on one pipe, each holding one LockPipe; a
\* runnable task is polled in the end (the executor runs every woken task)
InitProg ==
    /\ \E c \in 1..MaxCap : pipe = Pipe_new(c)
    /\ handles = [t \in Sides |-> 1]
    /\ rd = [pc |-> "idle", d |-> 0, why |-> None]
    /\ \E m \in SeqsUpTo(MaxTotal) :
          wr = [pc |-> "idle", buf |-> <<>>, why |-> None, msg |-> m]
    /\ accepted = <<>>
    /\ delivered = <<>>
    /\ atClose = <<>>
    /\ drained = <<>>
    /\ ev = NoEv
    /\ ProcInitOf({})
    /\ \A p \in Procs : proc[p].files = add_stdio
    /\ LifeInit

NextProg ==
    \/ SendStart
    \/ SendRetry
    \/ SendShutdown
    \/ RecvStart
    \/ RecvRetry
    \/ EndDrop

SpecProg ==
    /\ InitProg
    /\ [][NextProg]_vars
    /\ WF_vars(SendStart \/ SendRetry \/ SendShutdown)
    /\ WF_vars(RecvStart \/ RecvRetry)
    /\ WF_vars(EndDrop)

\* one WasiProcess object from construction to the end of its SpawnHandle
InitLife ==
    /\ LifeInit
    /\ ProcInitOf({})
    /\ \A p \in Procs : proc[p].files = add_stdio
    /\ PipeInit
    /\ pipe.max_buf_size = MaxCap
    /\ handles["writer"] = 1

NextLife ==
    \/ Take
    \/ Spawn
    \/ FuturePoll
    \/ CallReturn
    \/ TaskCancel
    \/ TaskPanic
    \/ JoinPoll

SpecLife == InitLife /\ [][NextLife]_vars

\* ------------------------------------------------------------ pipe claims
Free(p) == p.max_buf_size - Len(p.buffer)
Closes == {"shutdown", "drop"}

\* C1: the buffered length never exceeds the capacity, and a write of more
\* bytes than the free space appends exactly the part that fits.
C1_Capacity ==
    /\ Len(pipe.buffer) <= pipe.max_buf_size
    /\ (ev.op = "write" /\ ~ev.pre.is_closed /\ ev.len > Free(ev.pre)) =>
          /\ ev.n = Free(ev.pre)
          /\ pipe.buffer = ev.pre.buffer \o SubSeq(ev.buf, 1, Free(ev.pre))

C1_Witness ==
    /\ ev.op = "write" /\ ev.poll = "Ready" /\ ~ev.pre.is_closed
    /\ Free(ev.pre) > 0 /\ ev.len > Free(ev.pre)
    /\ Len(ev.pre.buffer) > 0
    /\ Len(pipe.buffer) = pipe.max_buf_size

\* C2: the bytes read so far are a prefix of the bytes accepted so far, and
\* the bytes read followed by the buffer are exactly the bytes accepted.
C2_Fifo ==
    /\ IsPrefix(delivered, accepted)
    /\ delivered \o pipe.buffer = accepted

C2_Witness ==
    /\ ev.op = "read" /\ ev.n > 0
    /\ Len(delivered) > ev.n
    /\ Len(pipe.buffer) > 0
    /\ \E i, j \in 1..Len(accepted) : accepted[i] # accepted[j]

\* C3: on a closed pipe a read never suspends and never fails; it returns the
\* head of what was buffered at close time, and zero bytes once that is drained.
C3_CloseThenDrain ==
    /\ pipe.is_closed => /\ rd.pc # "pending"
                         /\ drained \o pipe.buffer = atClose
    /\ (ev.op = "read" /\ ev.pre.is_closed) =>
          /\ ev.poll = "Ready" /\ ev.res = "Ok"
          /\ ev.data = SubSeq(ev.pre.buffer, 1, Min(ev.len, Len(ev.pre.buffer)))
          /\ pipe.read_waker = None
          /\ (ev.pre.buffer = <<>> => ev.n = 0)

C3_Witness ==
    /\ ev.op = "read" /\ ev.pre.is_closed /\ ev.len > 0 /\ ev.n = 0
    /\ Len(atClose) > 1 /\ drained = atClose

\* C4: a write on a closed pipe completes at once with BrokenPipe, appends
\* nothing, registers no writer waker and leaves the pipe as it was.
C4_PostCloseWrite ==
    (ev.op = "write" /\ ev.pre.is_closed) =>
        /\ ev.poll = "Ready" /\ ev.res = "BrokenPipe" /\ ev.n = 0
        /\ pipe = ev.pre
        /\ wr.pc = "idle"
        /\ ev.wake = {}
        /\ delivered \o pipe.buffer = accepted

C4_Witness ==
    /\ ev.op = "write" /\ ev.pre.is_closed /\ ev.len > 0
    /\ Len(pipe.buffer) = pipe.max_buf_size
    /\ pipe.write_waker = None

\* C5: a zero-length write on an open pipe wakes no reader; a write wakes the
\* reader only when it appended at least one byte.
C5_NoSpuriousWakeOnWrite ==
    /\ (ev.op = "write" /\ ~ev.pre.is_closed /\ ev.len = 0) => ev.wake = {}
    /\ (ev.op = "write" /\ ev.wake # {}) => ev.n >= 1

\* C6: a read on an empty open pipe registers the reader's waker and returns
\* Pending; a completed zero-byte read into a non-empty destination happens
\* only on a closed, drained pipe.
C6_EmptyOpenReadSuspends ==
    /\ (ev.op = "read" /\ ev.pre.buffer = <<>> /\ ~ev.pre.is_closed) =>
          /\ ev.poll = "Pending"
          /\ pipe.read_waker = "reader"
          /\ rd.pc = "pending"
    /\ (ev.op = "read" /\ ev.poll = "Ready" /\ ev.n = 0 /\ ev.len > 0) =>
          /\ ev.pre.is_closed
          /\ ev.pre.buffer = <<>>

C6_Witness ==
    /\ ev.op = "read" /\ ev.pre.buffer = <<>> /\ ~ev.pre.is_closed
    /\ ev.len > 0 /\ Len(delivered) > 0
    /\ rd.pc = "pending"

\* C7: a writer parked on a full pipe is made runnable by the read that frees
\* space and by the closing of the pipe (shutdown or a handle drop), and its
\* retried write on the closed pipe fails with BrokenPipe.
C7_WriterResumed ==
    /\ (ev.op = "read" /\ ev.n > 0) => wr.pc # "pending"
    /\ (ev.op \in Closes) => wr.pc # "pending"
    /\ (ev.op = "write" /\ ev.retry /\ ev.pre.is_closed) => ev.res = "BrokenPipe"

\* C8: a parked reader is made runnable by a write that appends a byte and by
\* the closing of the pipe, and its retried read completes without an error:
\* with data after a write, with zero bytes only on a closed pipe.
C8_ReaderResumed ==
    /\ (ev.op = "write" /\ ev.n >= 1) => rd.pc # "pending"
    /\ (ev.op \in Closes) => rd.pc # "pending"
    /\ (ev.op = "read" /\ ev.retry /\ ev.why \in {"data", "close"}) =>
          /\ ev.poll = "Ready" /\ ev.res = "Ok"
          /\ (ev.why = "data" /\ ev.len > 0) => ev.n > 0
          /\ (ev.n = 0 /\ ev.len > 0) => ev.pre.is_closed

C8_Witness ==
    /\ ev.op = "read" /\ ev.retry /\ ev.why = "close"
    /\ ev.len > 0 /\ ev.n = 0 /\ ev.poll = "Ready"
    /\ Len(delivered) > 0

\* C9: the drop of the last LockPipe clone leaves the pipe closed and wakes a
\* registered reader, whichever side held that clone.
C9_LastDropCloses ==
    (ev.op = "drop" /\ ev.last) =>
        /\ pipe.is_closed
        /\ pipe.read_waker = None
        /\ rd.pc # "pending"
        /\ (ev.pre.read_waker # None => ev.pre.read_waker \in ev.wake)

C9_Witness ==
    /\ ev.op = "drop" /\ ev.last /\ ev.side = "writer"
    /\ ~ev.pre.is_closed
    /\ Len(accepted) > 0
    /\ pipe.is_closed

\* C17: a write through the stdout or stderr adapter that returns Ok has had
\* the whole guest buffer accepted by the pipe: the count it returns is the
\* length of the buffer, never a part of it.
C17_AdapterWritesAll ==
    (ev.op = "write" /\ ev.poll = "Ready" /\ ev.ret.res = "Ok") => ev.ret.n = ev.len

\* C18: the drop of a LockPipe clone while another clone is still held leaves
\* an open pipe open.
C18_CloneDropKeepsOpen ==
    (ev.op = "drop" /\ ~ev.last /\ ~ev.pre.is_closed) => ~pipe.is_closed

\* C19: a read into a zero-length destination wakes no writer and leaves the
\* buffer and the writer's waker slot as they were; a read wakes the writer
\* only when it removed at least one byte.
C19_NoSpuriousWakeOnRead ==
    /\ (ev.op = "read" /\ ev.len = 0) =>
          /\ ev.wake = {}
          /\ pipe.buffer = ev.pre.buffer
          /\ pipe.write_waker = ev.pre.write_waker
    /\ (ev.op = "read" /\ ev.wake # {}) =>
          /\ ev.n >= 1
          /\ Len(pipe.buffer) = Len(ev.pre.buffer) - ev.n

C19_Witness ==
    /\ ev.op = "read" /\ ev.len = 0 /\ ev.poll = "Ready"
    /\ ev.pre.write_waker = "writer"
    /\ wr.pc = "pending"
    /\ Len(pipe.buffer) = pipe.max_buf_size

\* C20: on an open pipe with free space f > 0 a write of n bytes completes
\* with min(n, f) and appends the first min(n, f) bytes of its source; on a
\* pipe holding b > 0 bytes a read into a destination of size d completes with
\* the first min(b, d) buffered bytes and removes exactly those.
C20_TransferCounts ==
    /\ (ev.op = "write" /\ ~ev.pre.is_closed /\ Free(ev.pre) > 0) =>
          LET k == Min(ev.len, Free(ev.pre))
          IN  /\ ev.poll = "Ready" /\ ev.res = "Ok" /\ ev.n = k
              /\ pipe.buffer = ev.pre.buffer \o SubSeq(ev.buf, 1, k)
    /\ (ev.op = "read" /\ Len(ev.pre.buffer) > 0) =>
          LET b == Len(ev.pre.buffer)
              k == Min(b, ev.len)
          IN  /\ ev.poll = "Ready" /\ ev.res = "Ok"
              /\ ev.data = SubSeq(ev.pre.buffer, 1, k)
              /\ pipe.buffer = SubSeq(ev.pre.buffer, k + 1, b)

C20_Witness ==
    /\ ev.op = "read" /\ ev.len > 0
    /\ Len(ev.pre.buffer) > ev.len
    /\ ev.n = ev.len
    /\ Len(accepted) > Len(delivered)
    /\ Len(delivered) > ev.n

\* C22: a close (shutdown or handle drop) of a closed pipe wakes nobody and
\* leaves the buffer, the flag and both waker slots as they were; and no
\* operation whatever takes a closed pipe back to open.
C22_CloseIdempotent ==
    /\ (ev.op \in Closes /\ ev.pre.is_closed) =>
          /\ pipe = ev.pre
          /\ ev.wake = {}
    /\ ev.pre.is_closed => pipe.is_closed
    /\ pipe.is_closed => pipe.read_waker = None

C22_Witness ==
    /\ ev.op \in Closes /\ ev.pre.is_closed
    /\ Len(pipe.buffer) > 0
    /\ pipe.write_waker # None
    /\ Len(delivered) > 0

\* a parked task waits for something that is not there yet, and its waker is
\* in the slot the other side will take it from
ParkedForCause ==
    /\ rd.pc = "pending" =>
          /\ pipe.buffer = <<>> /\ ~pipe.is_closed
          /\ pipe.read_waker = "reader"
    /\ wr.pc = "pending" =>
          /\ Free(pipe) = 0 /\ ~pipe.is_closed
          /\ pipe.write_waker = "writer"

\* C21: one writer that sends N bytes with a loop over short writes and then
\* closes, one reader that reads to the end of the stream, a pipe of capacity
\* C >= 1: with every runnable task polled in the end, both tasks terminate
\* and the reader has received exactly the N bytes; and a task is never parked
\* while the thing it waits for is there or while its waker is not registered.
C21_Progress ==
    /\ []ParkedForCause
    /\ [](rd.pc \in {"eof", "done"} => delivered = wr.msg)
    /\ <>[](wr.pc = "done" /\ rd.pc = "done" /\ delivered = wr.msg)

C21_Witness ==
    /\ wr.pc = "done" /\ rd.pc = "done"
    /\ delivered = wr.msg
    /\ Len(wr.msg) > pipe.max_buf_size
    /\ pipe.max_buf_size > 1
    /\ handles = [t \in Sides |-> 0]

\* --------------------------------------------------------- process claims
Origin(b) == b[1]
BytesOf(q) == {q[i] : i \in 1..Len(q)}
Queued(p, s) == UNION {BytesOf(chan[p][s][i]) : i \in 1..Len(chan[p][s])}

\* C10: every adapter call of a guest resolves to its own process's binding:
\* the bytes queued for and read from a process's host handles were written by
\* that process's guest, and its Stdin adapter returns only bytes its own host
\* wrote.
C10_ScopeIsolation ==
    /\ (pev.op \in {"write", "read"}) => pev.binding.proc = pev.proc
    /\ \A p \in Procs :
          /\ \A s \in {"stdout", "stderr"} :
                \A b \in BytesOf(hostGot[p][s]) \cup BytesOf(rdr[p][s]) \cup Queued(p, s) :
                    Origin(b) = p /\ b[2] \in {1, 2}
          /\ \A b \in BytesOf(guestGot[p]) : b = <<p, 0>>

C10_Witness ==
    /\ \A p \in Procs : Running(p)
    /\ proc["A"].worker # proc["B"].worker
    /\ hostGot["B"]["stdout"] # <<>>
    /\ guestGot["A"] # <<>>
    /\ pev.op = "write" /\ pev.proc = "A" /\ pev.adapter = "Stderr"

\* the tagged bytes on their way to, or already read from, the host handle s of p
OnHandle(p, s) == BytesOf(hostGot[p][s]) \cup BytesOf(rdr[p][s]) \cup Queued(p, s)

\* C11: in an environment set up with add_stdio, the bytes the guest wrote to
\* descriptor 1 reach only the host's stdout handle and the bytes it wrote to
\* descriptor 2 only the host's stderr handle.
C11_StreamRouting ==
    \A p \in Procs :
        proc[p].files = add_stdio =>
            /\ \A b \in OnHandle(p, "stdout") : b[2] = 1
            /\ \A b \in OnHandle(p, "stderr") : b[2] = 2

Count(q, b) == Cardinality({i \in 1..Len(q) : q[i] = b})

RECURSIVE Flat(_)
Flat(q) == IF q = <<>> THEN <<>> ELSE Head(q) \o Flat(Tail(q))

\* every byte put on stream s of p so far, in order: read by the host, left
\* in the reader's chunk, queued in the channel
Stream(p, s) == hostGot[p][s] \o rdr[p][s] \o Flat(chan[p][s])

\* the stream the pseudo-file registered for descriptor fd writes to
RouteOf(p, fd) == Scope(p)[AdapterKey(proc[p].files[fd])].stream

\* C12: once the entry-point call has returned or failed no thread holds a
\* binding of the process; a read of the host's stdout or stderr handle then
\* never suspends: it returns queued bytes, and zero bytes (end of stream) only
\* when the host has read every byte the guest's writes put on that stream.
\* No byte is lost: the bytes on a stream are exactly the bytes the guest wrote
\* to the descriptors whose pseudo-file writes to that stream.
C12_TeardownThenEof ==
    \A p \in Procs :
        /\ \A s \in {"stdout", "stderr"}, fd \in {1, 2} :
              Count(Stream(p, s), <<p, fd>>) =
                  IF RouteOf(p, fd) = s THEN proc[p].wrote[fd] ELSE 0
        /\ Finished(p) => \A w \in Workers, k \in Keys : tls[w][k].proc # p
        /\ (pev.op = "host_read" /\ pev.proc = p /\ Finished(p)) =>
              /\ pev.poll = "Ready" /\ pev.res = "Ok"
              /\ pev.n = 0 => hostGot[p][pev.binding.stream] = Stream(p, pev.binding.stream)

C12_Witness ==
    /\ pev.op = "host_read" /\ pev.proc = "A" /\ pev.n = 0 /\ pev.poll = "Ready"
    /\ proc["A"].state = "failed"
    /\ pev.binding.stream = "stdout"
    /\ Len(hostGot["A"]["stdout"]) >= 2
    /\ proc["A"].wrote[1] >= 1

\* the operations the adapters do not support
Unsupported(adapter, call) ==
    \/ adapter = "Stdin" /\ call \in {"write", "seek", "set_len"}
    \/ adapter \in {"Stdout", "Stderr"} /\ call \in {"read", "seek", "set_len"}

\* C16: a write, seek or set_len on the Stdin adapter and a read, seek or
\* set_len on the Stdout and Stderr adapters returns an error at once, and the
\* step changes no binding, no channel, no reader, no handle and no pipe.
C16_RejectedNoEffect ==
    [][(pev'.proc \in Procs /\ Unsupported(pev'.adapter, pev'.call)) =>
          /\ pev'.res = "Err" /\ pev'.poll = "Ready"
          /\ UNCHANGED <<tls, proc, io, chan, rdr, hostIn, hostGot, guestGot, pvars, lvars>>]_vars

C16_Witness ==
    /\ pev.op = "rejected" /\ pev.res = "Err"
    /\ pev.adapter = "Stdout" /\ pev.call = "read" /\ pev.fd = 2
    /\ chan[pev.proc]["stdout"] # <<>>
    /\ chan[pev.proc]["stdin"] # <<>>

\* ------------------------------------------------------- lifecycle claims
\* C13: after construction each of the three handles is there; the first
\* retrieval of a stream gets the handle, every later retrieval of the same
\* stream gets nothing, and a retrieval leaves the other two fields as they were.
C13_TakeOnce ==
    /\ lev.op = "new" => \A s \in Streams : obj[s] = "Some"
    /\ \A s \in Streams : (obj[s] = "Some") <=> (takes[s] = 0)
    /\ lev.op = "take" =>
          /\ lev.got = IF takes[lev.stream] = 1 THEN "Some" ELSE "None"
          /\ obj[lev.stream] = "None"
          /\ \A t \in Streams \ {lev.stream} : obj[t] = lev.pre[t]

C13_Witness ==
    /\ lev.op = "take" /\ lev.got = "None"
    /\ takes[lev.stream] = 2
    /\ \E t \in Streams : obj[t] = "Some"
    /\ \E t \in Streams \ {lev.stream} : takes[t] = 1

LifeSteps ==
    {<<"constructed", "running">>, <<"running", "succeeded">>, <<"running", "failed">>}

\* C14: the object goes constructed -> running -> succeeded or failed and by
\* no other step; the entry point is not called before the object is awaited
\* or spawned, it is called at most once whatever the polls are, and a
\* finished object stays as it finished.
C14_Lifecycle ==
    /\ [](/\ obj.calls <= 1
          /\ (obj.calls = 0) <=> (obj.state = "constructed")
          /\ task.how = "none" => obj.state = "constructed")
    /\ [][\/ obj'.state = obj.state /\ obj'.calls = obj.calls
          \/ <<obj.state, obj'.state>> \in LifeSteps]_vars

C14_Witness ==
    /\ lev.op = "poll" /\ lev.res = "panic"
    /\ obj.state = "failed"
    /\ obj.calls = 1
    /\ task.how = "await"

\* C15: a completed poll of the SpawnHandle gives Ok exactly when the task
\* ran to its end and the entry point returned Ok, the Wasi variant exactly
\* when it ran to its end and the entry point returned Err, and the Join
\* variant exactly when the task was cancelled or panicked.
C15_SpawnOutcome ==
    lev.op = "join" =>
        /\ (lev.res = "Ok") <=> (task.st = "done" /\ obj.state = "succeeded")
        /\ (lev.res = "Wasi") <=> (task.st = "done" /\ obj.state = "failed")
        /\ (lev.res = "Join") <=> (task.st \in {"cancelled", "panicked"})
        /\ (lev.res = "Pending") <=> (task.st \in {"scheduled", "running"})

C15_Witness ==
    /\ lev.op = "join" /\ lev.res = "Join"
    /\ task.st = "panicked"
    /\ obj.calls = 1
    /\ task.joined

====
